---- MODULE Spec2Model ----
(***************************************************************************)
(* Bug tracker server: the bug store and the handlers of routes/bugs.ts    *)
(* (listing, export, analytics, create, update, delete), the role route of *)
(* routes/users.ts, the create and delete routes of routes/comments.ts,    *)
(* and the dashboard page of the client.                                   *)
(*                                                                         *)
(* Text is a sequence of tokens.  A token of free text is one character    *)
(* ("a", ",", a line feed is "\n"); an enumeration value, an identifier or *)
(* a printed timestamp is one token.  A query parameter that is not sent   *)
(* is Undefined.                                                           *)
(***************************************************************************)
EXTENDS Integers, Sequences, FiniteSets, TLC

VARIABLES users, bugs, comments, cmt, nextId, now, lst, ana, resp, walk, dash

vars == <<users, bugs, comments, cmt, nextId, now, lst, ana, resp, walk, dash>>

----------------------------------------------------------------------------
(* Bounds of the model                                                     *)

MaxBugs == 2
MaxTime == 1
MaxLen == 2
MaxFields == 2
MaxDay == 195
MaxLoad == 2
MaxPage == 3
MaxComments == 3

----------------------------------------------------------------------------
(* Program constants                                                       *)

DefaultPage == 1
DefaultLimit == 10
MinPage == 1
MinLimit == 1
MaxLimit == 100

SevenDays == 7
SixMonths == 6
DaysPerMonth == 30
MonthsPerYear == 12
TopAssignees == 5

StatusEnum == {"open", "in-progress", "resolved", "closed", "reopened"}
PriorityEnum == {"low", "medium", "high", "critical"}
TypeEnum == {"bug", "feature", "improvement", "task"}

NULL == "null"
Undefined == <<"undefined">>

UserIds == {"u1", "u2"}
\* 24 hex digit strings: the users' ids and one that names no user
ObjectIds == UserIds \cup {"u9"}

----------------------------------------------------------------------------
(* Text                                                                    *)

Texts(A, n) == UNION {[1..k -> A] : k \in 0..n}

Includes(field, c) == \E i \in 1..Len(field) : field[i] = c

RECURSIVE Join(_, _)
Join(parts, sep) ==
  IF Len(parts) = 0 THEN <<>>
  ELSE IF Len(parts) = 1 THEN parts[1]
  ELSE parts[1] \o sep \o Join(Tail(parts), sep)

Truthy(v) == v # Undefined /\ v # <<>>

Whitespace == {" ", "\n"}

\* String.prototype.trim, the express-validator sanitizer trim()
RECURSIVE TrimLeft(_)
TrimLeft(t) ==
  IF Len(t) > 0 /\ t[1] \in Whitespace THEN TrimLeft(Tail(t)) ELSE t

RECURSIVE TrimRight(_)
TrimRight(t) ==
  IF Len(t) > 0 /\ t[Len(t)] \in Whitespace
  THEN TrimRight(SubSeq(t, 1, Len(t) - 1)) ELSE t

Trim(t) == TrimRight(TrimLeft(t))

Digit(c) ==
  CASE c = "0" -> 0 [] c = "1" -> 1 [] c = "2" -> 2 [] c = "3" -> 3
    [] c = "4" -> 4 [] c = "5" -> 5 [] c = "6" -> 6 [] c = "7" -> 7
    [] c = "8" -> 8 [] c = "9" -> 9 [] OTHER -> -1

RECURSIVE DigitsValue(_)
DigitsValue(t) ==
  IF Len(t) = 0 THEN 0
  ELSE 10 * DigitsValue(SubSeq(t, 1, Len(t) - 1)) + Digit(t[Len(t)])

\* parseInt(v): the leading digits of v (after a sign), NaN (-1 here is
\* never a value of a digit string) when there are none
LeadingDigits(t) ==
  LET n == IF \E i \in 1..Len(t) : Digit(t[i]) < 0
           THEN (CHOOSE i \in 1..Len(t) :
                   Digit(t[i]) < 0 /\ \A j \in 1..(i - 1) : Digit(t[j]) >= 0) - 1
           ELSE Len(t)
  IN SubSeq(t, 1, n)

NaN == -1

\* a negative number is never read here: the validators refuse it first
parseInt(v) ==
  IF v = Undefined THEN NaN
  ELSE LET unsigned == IF Len(v) > 0 /\ v[1] = "+" THEN Tail(v) ELSE v
           ds == LeadingDigits(unsigned)
       IN IF Len(ds) = 0 THEN NaN ELSE DigitsValue(ds)

\* validator.js isInt: an optional sign, then digits only
isIntText(v) ==
  LET unsigned == IF Len(v) > 0 /\ v[1] \in {"+", "-"} THEN Tail(v) ELSE v
  IN /\ Len(unsigned) > 0
     /\ \A i \in 1..Len(unsigned) : Digit(unsigned[i]) >= 0

IntValue(v) ==
  LET unsigned == IF Len(v) > 0 /\ v[1] \in {"+", "-"} THEN Tail(v) ELSE v
  IN IF v[1] = "-" THEN 0 - DigitsValue(unsigned) ELSE DigitsValue(unsigned)

\* isInt({ min })
isIntMin(v, min) == isIntText(v) /\ IntValue(v) >= min

\* a variant with no upper limit
isIntMinOnly(v, min, max) == isIntText(v) /\ IntValue(v) >= min

\* isInt({ min, max })
isIntMinMax(v, min, max) == isIntText(v) /\ IntValue(v) >= min /\ IntValue(v) <= max

isIn(v, enum) == Len(v) = 1 /\ v[1] \in enum

isMongoId(v) == Len(v) = 1 /\ v[1] \in ObjectIds

Lower(c) == CASE c = "A" -> "a" [] c = "B" -> "b" [] OTHER -> c

\* $regex with $options 'i': the pattern is a regular expression, in which
\* "." stands for any character but a line feed
RegexMatchAt(pattern, s, i) ==
  \A k \in 1..Len(pattern) :
    IF pattern[k] = "." THEN s[i + k - 1] # "\n"
    ELSE Lower(pattern[k]) = Lower(s[i + k - 1])

RegexTest(pattern, s) ==
  \E i \in 1..(Len(s) - Len(pattern) + 1) : RegexMatchAt(pattern, s, i)

----------------------------------------------------------------------------
(* The store                                                               *)

NoListing == [pc |-> "idle"]
NoAnalytics == [pc |-> "idle"]
NoWalk == [pc |-> "idle"]
NoResponse == [op |-> "none"]
NoDashboard == [pc |-> "closed"]
NoPost == [bug |-> 0]
NoComment == [creating |-> NoPost, deleting |-> NULL, nextId |-> 1]

EmptyStore ==
  /\ bugs = {}
  /\ comments = {}
  /\ cmt = NoComment
  /\ dash = NoDashboard
  /\ nextId = 1
  /\ now = 0
  /\ lst = NoListing
  /\ ana = NoAnalytics
  /\ resp = NoResponse
  /\ walk = NoWalk

TheUsers ==
  [u \in UserIds |->
     [firstName |-> <<"a">>, lastName |-> <<"b">>,
      role |-> IF u = "u1" THEN "admin" ELSE "developer"]]

Init ==
  /\ users = TheUsers
  /\ EmptyStore

Tick ==
  /\ now < MaxTime
  /\ now' = now + 1
  /\ resp' = NoResponse
  /\ UNCHANGED <<users, comments, cmt, dash, walk, bugs, nextId, lst, ana>>

\* half a month passes
HalfMonthPasses ==
  /\ now + (DaysPerMonth \div 2) <= MaxDay
  /\ now' = now + (DaysPerMonth \div 2)
  /\ resp' = NoResponse
  /\ UNCHANGED <<users, comments, cmt, dash, walk, bugs, nextId, lst, ana>>

\* a write committed while a listing or an analytics request is between its
\* first read and its response
Raced(l) == IF l.pc = "idle" THEN l ELSE [l EXCEPT !.raced = TRUE]

\* the validators of POST /api/bugs, after their sanitizers
CreateBugValid(title, description, priority, type, assignedTo) ==
  /\ Len(Trim(title)) >= 1
  /\ Len(Trim(description)) >= 1
  /\ isIn(priority, PriorityEnum)
  /\ type = Undefined \/ isIn(type, TypeEnum)
  /\ assignedTo = Undefined \/ isMongoId(assignedTo)

NewBug(id, u, title, description, priority, type, assignedTo, t) ==
  [id |-> id,
   title |-> Trim(title),
   description |-> Trim(description),
   priority |-> priority[1],
   status |-> "open",
   type |-> IF Truthy(type) THEN type[1] ELSE "bug",
   assignedTo |-> IF Truthy(assignedTo) THEN assignedTo[1] ELSE NULL,
   reporter |-> u,
   resolvedAt |-> NULL,
   createdAt |-> t,
   updatedAt |-> t]

\* POST /api/bugs by user u
CreateBug(u, title, description, priority, type, assignedTo) ==
  /\ nextId <= MaxBugs
  /\ IF ~CreateBugValid(title, description, priority, type, assignedTo)
     THEN /\ resp' = [op |-> "create", status |-> 400]
          /\ UNCHANGED <<users, comments, cmt, dash, walk, bugs, nextId, now, lst, ana>>
     ELSE IF Truthy(assignedTo) /\ assignedTo[1] \notin DOMAIN users
     THEN /\ resp' = [op |-> "create", status |-> 400]
          /\ UNCHANGED <<users, comments, cmt, dash, walk, bugs, nextId, now, lst, ana>>
     ELSE /\ bugs' = bugs \cup
                {NewBug(nextId, u, title, description, priority, type, assignedTo, now)}
          /\ nextId' = nextId + 1
          /\ lst' = Raced(lst)
          /\ ana' = Raced(ana)
          /\ resp' = [op |-> "create", status |-> 201]
          /\ UNCHANGED <<users, comments, cmt, dash, walk, now>>

\* the request body of PUT /api/bugs/:id: the fields it does not carry are
\* Undefined, a JSON null is Null
Null == <<"$null", "$">>

NoPatch ==
  [title |-> Undefined, description |-> Undefined, priority |-> Undefined,
   status |-> Undefined, type |-> Undefined, assignedTo |-> Undefined,
   reporter |-> Undefined]

UpdateBugValid(patch) ==
  /\ patch.title = Undefined \/ Len(Trim(patch.title)) >= 1
  /\ patch.description = Undefined \/ Len(Trim(patch.description)) >= 1
  /\ patch.priority = Undefined \/ isIn(patch.priority, PriorityEnum)
  /\ patch.status = Undefined \/ isIn(patch.status, StatusEnum)
  /\ patch.type = Undefined \/ isIn(patch.type, TypeEnum)
  /\ patch.assignedTo \in {Undefined, Null, <<>>} \/ isMongoId(patch.assignedTo)

\* findByIdAndUpdate(id, updateData): $set of every field of the body; the
\* pre('save') hook of the schema does not run for it
ApplyUpdate(b, patch, t) ==
  [b EXCEPT
     !.title = IF patch.title = Undefined THEN @ ELSE Trim(patch.title),
     !.description = IF patch.description = Undefined THEN @ ELSE Trim(patch.description),
     !.priority = IF patch.priority = Undefined THEN @ ELSE patch.priority[1],
     !.status = IF patch.status = Undefined THEN @ ELSE patch.status[1],
     !.type = IF patch.type = Undefined THEN @ ELSE patch.type[1],
     !.assignedTo = IF patch.assignedTo = Undefined THEN @
                    ELSE IF patch.assignedTo \in {Null, <<>>} THEN NULL
                    ELSE patch.assignedTo[1],
     !.reporter = IF patch.reporter = Undefined THEN @ ELSE patch.reporter[1],
     !.updatedAt = t]

\* PUT /api/bugs/:id
UpdateBug(id, patch) ==
  /\ IF ~UpdateBugValid(patch)
     THEN /\ resp' = [op |-> "update", status |-> 400]
          /\ UNCHANGED <<bugs, lst, ana>>
     ELSE IF \A b \in bugs : b.id # id
     THEN /\ resp' = [op |-> "update", status |-> 404]
          /\ UNCHANGED <<bugs, lst, ana>>
     ELSE IF patch.assignedTo \notin {Undefined, Null, <<>>}
             /\ patch.assignedTo[1] \notin DOMAIN users
     THEN /\ resp' = [op |-> "update", status |-> 400]
          /\ UNCHANGED <<bugs, lst, ana>>
     ELSE IF patch.reporter # Undefined /\ ~isMongoId(patch.reporter)
     THEN /\ resp' = [op |-> "update", status |-> 500]
          /\ UNCHANGED <<bugs, lst, ana>>
     ELSE /\ bugs' = {IF b.id = id THEN ApplyUpdate(b, patch, now) ELSE b : b \in bugs}
          /\ lst' = Raced(lst)
          /\ ana' = Raced(ana)
          /\ resp' = [op |-> "update", status |-> 200]
  /\ UNCHANGED <<users, comments, cmt, dash, walk, nextId, now>>

Roles == {"admin", "developer", "tester", "manager"}

\* req.user as the authentication middleware leaves it: the stored document
\* of the requester, with its id as a string
authenticateToken(u) == [id |-> u, role |-> users[u].role]

authorizeRole(u, roles) == authenticateToken(u).role \in roles

\* PUT /api/users/:id/role by user u
UpdateUserRole(u, id, role) ==
  /\ IF ~authorizeRole(u, {"admin"})
     THEN /\ resp' = [op |-> "role", status |-> 403]
          /\ UNCHANGED users
     ELSE IF role \notin Roles
     THEN /\ resp' = [op |-> "role", status |-> 400]
          /\ UNCHANGED users
     ELSE IF id \notin DOMAIN users
     THEN /\ resp' = [op |-> "role", status |-> 404]
          /\ UNCHANGED users
     ELSE IF id = u
     THEN /\ resp' = [op |-> "role", status |-> 400]
          /\ UNCHANGED users
     ELSE /\ users' = [users EXCEPT ![id].role = role]
          /\ resp' = [op |-> "role", status |-> 200]
  /\ UNCHANGED <<comments, cmt, dash, walk, bugs, nextId, now, lst, ana>>

\* a variant that lets every developer delete, as the @access line reads
canDeleteDeveloper(u, bug) ==
  \/ authenticateToken(u).role = "admin"
  \/ authenticateToken(u).role = "manager"
  \/ authenticateToken(u).role = "developer"
  \/ bug.reporter = authenticateToken(u).id

canDelete(u, bug) ==
  \/ authenticateToken(u).role = "admin"
  \/ authenticateToken(u).role = "manager"
  \/ bug.reporter = authenticateToken(u).id

\* DELETE /api/bugs/:id by user u; the response is kept with the requester
\* and the id of the request
DeleteBug(u, id) ==
  /\ IF \A b \in bugs : b.id # id
     THEN /\ resp' = [op |-> "delete", status |-> 404, by |-> u, id |-> id]
          /\ UNCHANGED <<bugs, lst, ana>>
     ELSE LET bug == CHOOSE b \in bugs : b.id = id
          IN IF ~canDelete(u, bug)
             THEN /\ resp' = [op |-> "delete", status |-> 403, by |-> u, id |-> id]
                  /\ UNCHANGED <<bugs, lst, ana>>
             ELSE /\ bugs' = bugs \ {bug}
                  /\ lst' = Raced(lst)
                  /\ ana' = Raced(ana)
                  /\ resp' = [op |-> "delete", status |-> 200, by |-> u, id |-> id]
  /\ UNCHANGED <<users, comments, cmt, dash, walk, nextId, now>>

----------------------------------------------------------------------------
(* Query filters: GET /api/bugs and GET /api/bugs/export                   *)

\* a field the filter object does not have
NoConstraint == <<"$any", "$">>

NoQuery ==
  [page |-> Undefined, limit |-> Undefined, status |-> Undefined,
   priority |-> Undefined, type |-> Undefined, assignedTo |-> Undefined,
   reporter |-> Undefined, unassigned |-> Undefined, search |-> Undefined]

\* a variant that validates the enumerated parameters and not the identifiers
ValidationErrorsEnumsOnly(q) ==
  {f \in {"page"} : q.page # Undefined /\ ~isIntMin(q.page, MinPage)}
  \cup {f \in {"limit"} : q.limit # Undefined /\ ~isIntMinMax(q.limit, MinLimit, MaxLimit)}
  \cup {f \in {"status"} : q.status # Undefined /\ ~isIn(q.status, StatusEnum)}
  \cup {f \in {"priority"} : q.priority # Undefined /\ ~isIn(q.priority, PriorityEnum)}
  \cup {f \in {"type"} : q.type # Undefined /\ ~isIn(q.type, TypeEnum)}

\* express-validator: optional() skips a parameter only when it is undefined
ValidationErrors(q) ==
  {f \in {"page"} : q.page # Undefined /\ ~isIntMin(q.page, MinPage)}
  \cup {f \in {"limit"} : q.limit # Undefined /\ ~isIntMinMax(q.limit, MinLimit, MaxLimit)}
  \cup {f \in {"status"} : q.status # Undefined /\ ~isIn(q.status, StatusEnum)}
  \cup {f \in {"priority"} : q.priority # Undefined /\ ~isIn(q.priority, PriorityEnum)}
  \cup {f \in {"type"} : q.type # Undefined /\ ~isIn(q.type, TypeEnum)}
  \cup {f \in {"assignedTo"} : q.assignedTo # Undefined /\ ~isMongoId(q.assignedTo)}
  \cup {f \in {"reporter"} : q.reporter # Undefined /\ ~isMongoId(q.reporter)}

OrDefault(n, d) == IF n = NaN \/ n = 0 THEN d ELSE n

PageOf(q) == OrDefault(parseInt(q.page), DefaultPage)
LimitOf(q) == OrDefault(parseInt(q.limit), DefaultLimit)
SkipOf(q) == (PageOf(q) - 1) * LimitOf(q)

\* a variant in which a request without assignedTo asks for no assignee
BuildFilterAbsentIsNull(q) ==
  [status |-> IF Truthy(q.status) THEN q.status ELSE NoConstraint,
   priority |-> IF Truthy(q.priority) THEN q.priority ELSE NoConstraint,
   type |-> IF Truthy(q.type) THEN q.type ELSE NoConstraint,
   assignedTo |-> IF q.unassigned = <<"true">> THEN Null
                  ELSE IF Truthy(q.assignedTo) THEN q.assignedTo ELSE Null,
   reporter |-> IF Truthy(q.reporter) THEN q.reporter ELSE NoConstraint,
   search |-> IF Truthy(q.search) THEN q.search ELSE NoConstraint]

\* a variant in which a supplied assignedTo wins over unassigned=true
BuildFilterAssigneeFirst(q) ==
  [status |-> IF Truthy(q.status) THEN q.status ELSE NoConstraint,
   priority |-> IF Truthy(q.priority) THEN q.priority ELSE NoConstraint,
   type |-> IF Truthy(q.type) THEN q.type ELSE NoConstraint,
   assignedTo |-> IF Truthy(q.assignedTo) THEN q.assignedTo
                  ELSE IF q.unassigned = <<"true">> THEN Null ELSE NoConstraint,
   reporter |-> IF Truthy(q.reporter) THEN q.reporter ELSE NoConstraint,
   search |-> IF Truthy(q.search) THEN q.search ELSE NoConstraint]

BuildFilter(q) ==
  [status |-> IF Truthy(q.status) THEN q.status ELSE NoConstraint,
   priority |-> IF Truthy(q.priority) THEN q.priority ELSE NoConstraint,
   type |-> IF Truthy(q.type) THEN q.type ELSE NoConstraint,
   assignedTo |-> IF q.unassigned = <<"true">> THEN Null
                  ELSE IF Truthy(q.assignedTo) THEN q.assignedTo ELSE NoConstraint,
   reporter |-> IF Truthy(q.reporter) THEN q.reporter ELSE NoConstraint,
   search |-> IF Truthy(q.search) THEN q.search ELSE NoConstraint]

\* mongoose casts the value of an ObjectId path and throws when it cannot
CastFails(f) ==
  \/ f.assignedTo \notin {NoConstraint, Null} /\ ~isMongoId(f.assignedTo)
  \/ f.reporter # NoConstraint /\ ~isMongoId(f.reporter)

Matches(b, f) ==
  /\ f.status = NoConstraint \/ f.status = <<b.status>>
  /\ f.priority = NoConstraint \/ f.priority = <<b.priority>>
  /\ f.type = NoConstraint \/ f.type = <<b.type>>
  /\ \/ f.assignedTo = NoConstraint
     \/ f.assignedTo = Null /\ b.assignedTo = NULL
     \/ f.assignedTo = <<b.assignedTo>>
  /\ f.reporter = NoConstraint \/ f.reporter = <<b.reporter>>
  /\ \/ f.search = NoConstraint
     \/ RegexTest(f.search, b.title)
     \/ RegexTest(f.search, b.description)

Find(store, f) == {b \in store : Matches(b, f)}

\* a variant that counts the collection and not the filter's matches
countAllDocuments(store, f) == Cardinality(store)

countDocuments(store, f) == Cardinality(Find(store, f))

\* a variant that sorts the oldest first
SortedByCreatedAsc(S) ==
  {s \in [1..Cardinality(S) -> S] :
     /\ \A i, j \in 1..Cardinality(S) : i # j => s[i] # s[j]
     /\ \A i, j \in 1..Cardinality(S) : i < j => s[i].createdAt <= s[j].createdAt}

\* sort({ createdAt: -1 }): records with equal createdAt come in any order
SortedByCreatedDesc(S) ==
  {s \in [1..Cardinality(S) -> S] :
     /\ \A i, j \in 1..Cardinality(S) : i # j => s[i] # s[j]
     /\ \A i, j \in 1..Cardinality(S) : i < j => s[i].createdAt >= s[j].createdAt}

Min(a, b) == IF a <= b THEN a ELSE b

SkipLimit(s, skip, limit) == SubSeq(s, skip + 1, Min(skip + limit, Len(s)))

NoUser == [id |-> NULL, firstName |-> <<>>, lastName |-> <<>>]

PopulateRef(ref, us) ==
  IF ref \in DOMAIN us
  THEN [id |-> ref, firstName |-> us[ref].firstName, lastName |-> us[ref].lastName]
  ELSE NoUser

Populate(b, us) ==
  [b EXCEPT !.assignedTo = PopulateRef(b.assignedTo, us),
            !.reporter = PopulateRef(b.reporter, us)]

PopulateAll(s, us) == [i \in 1..Len(s) |-> Populate(s[i], us)]

\* the pagination envelope of the listing response
Ceil(n, d) == (n + d - 1) \div d

\* a variant whose hasNext also holds on the last page
PaginationNextOnLast(page, limit, totalCount) ==
  [currentPage |-> page,
   totalPages |-> Ceil(totalCount, limit),
   totalCount |-> totalCount,
   hasNext |-> page <= Ceil(totalCount, limit),
   hasPrev |-> page > 1]

Pagination(page, limit, totalCount) ==
  [currentPage |-> page,
   totalPages |-> Ceil(totalCount, limit),
   totalCount |-> totalCount,
   hasNext |-> page < Ceil(totalCount, limit),
   hasPrev |-> page > 1]

\* GET /api/bugs up to its two reads
GetBugs(q) ==
  /\ lst.pc = "idle"
  /\ ana.pc = "idle"
  /\ IF ValidationErrors(q) # {}
     THEN /\ resp' = [op |-> "list", q |-> q, status |-> 400,
                      errors |-> ValidationErrors(q), reads |-> 0]
          /\ lst' = lst
     ELSE /\ lst' = [pc |-> "reading", q |-> q, pending |-> {"find", "count"},
                     bugs |-> <<>>, totalCount |-> 0, raced |-> FALSE]
          /\ resp' = NoResponse
  /\ UNCHANGED <<users, comments, cmt, dash, walk, bugs, nextId, now, ana>>

\* a variant that answers with what the reads gave so far
ListFailedPartial ==
  /\ lst' = NoListing
  /\ resp' = [op |-> "list", q |-> lst.q, status |-> 200,
              bugs |-> lst.bugs,
              pagination |-> Pagination(PageOf(lst.q), LimitOf(lst.q), lst.totalCount),
              reads |-> 2, raced |-> lst.raced]

ListFailed ==
  /\ lst' = NoListing
  /\ resp' = [op |-> "list", q |-> lst.q, status |-> 500,
              message |-> "Failed to fetch bugs", reads |-> 2]

\* Bug.find(filter).populate().sort().skip().limit().lean()
GetBugsFind ==
  /\ lst.pc = "reading"
  /\ "find" \in lst.pending
  /\ IF CastFails(BuildFilter(lst.q))
     THEN ListFailed
     ELSE /\ \E s \in SortedByCreatedDesc(Find(bugs, BuildFilter(lst.q))) :
               lst' = [lst EXCEPT !.pending = @ \ {"find"},
                                  !.bugs = PopulateAll(
                         SkipLimit(s, SkipOf(lst.q), LimitOf(lst.q)), users)]
          /\ resp' = NoResponse
  /\ UNCHANGED <<users, comments, cmt, dash, walk, bugs, nextId, now, ana>>

\* Bug.countDocuments(filter)
GetBugsCount ==
  /\ lst.pc = "reading"
  /\ "count" \in lst.pending
  /\ IF CastFails(BuildFilter(lst.q))
     THEN ListFailed
     ELSE /\ lst' = [lst EXCEPT !.pending = @ \ {"count"},
                                !.totalCount = countDocuments(bugs, BuildFilter(lst.q))]
          /\ resp' = NoResponse
  /\ UNCHANGED <<users, comments, cmt, dash, walk, bugs, nextId, now, ana>>

\* one of the two reads rejects: Promise.all rejects into the catch block
GetBugsReadFails(name) ==
  /\ lst.pc = "reading"
  /\ name \in lst.pending
  /\ ListFailed
  /\ UNCHANGED <<users, comments, cmt, dash, walk, bugs, nextId, now, ana>>

\* a variant that counts again when it answers
GetBugsRespondRecounted ==
  /\ lst.pc = "reading"
  /\ lst.pending = {}
  /\ resp' = [op |-> "list", q |-> lst.q, status |-> 200,
              bugs |-> lst.bugs,
              pagination |-> Pagination(PageOf(lst.q), LimitOf(lst.q),
                                        countDocuments(bugs, BuildFilter(lst.q))),
              reads |-> 2, raced |-> lst.raced]
  /\ lst' = NoListing
  /\ UNCHANGED <<users, comments, cmt, dash, walk, bugs, nextId, now, ana>>

\* res.json once Promise.all has both results
GetBugsRespond ==
  /\ lst.pc = "reading"
  /\ lst.pending = {}
  /\ resp' = [op |-> "list", q |-> lst.q, status |-> 200,
              bugs |-> lst.bugs,
              pagination |-> Pagination(PageOf(lst.q), LimitOf(lst.q), lst.totalCount),
              reads |-> 2, raced |-> lst.raced]
  /\ lst' = NoListing
  /\ UNCHANGED <<users, comments, cmt, dash, walk, bugs, nextId, now, ana>>

----------------------------------------------------------------------------
(* GET /api/bugs/export                                                    *)

csvHeader == <<"ID,Title,Description,Status,Priority,Type,Assigned To,Reporter,Created At,Updated At", "\n">>

RECURSIVE DoubleQuotes(_)
DoubleQuotes(field) ==
  IF Len(field) = 0 THEN <<>>
  ELSE (IF field[1] = "\"" THEN <<"\"", "\"">> ELSE <<field[1]>>)
       \o DoubleQuotes(Tail(field))

\* a variant that leaves a field with a newline and no comma or quote as it is
escapeCSVCommaQuote(field) ==
  IF Includes(field, ",") \/ Includes(field, "\"")
  THEN <<"\"">> \o DoubleQuotes(field) \o <<"\"">>
  ELSE field

escapeCSV(field) ==
  IF Includes(field, ",") \/ Includes(field, "\"") \/ Includes(field, "\n")
  THEN <<"\"">> \o DoubleQuotes(field) \o <<"\"">>
  ELSE field

DisplayName(doc, fallback) ==
  IF doc.id # NULL THEN doc.firstName \o <<" ">> \o doc.lastName ELSE fallback

\* the array csvRows joins into one line of the body
CsvFields(bug) ==
  <<<<ToString(bug.id)>>,
    escapeCSV(bug.title),
    escapeCSV(bug.description),
    <<bug.status>>,
    <<bug.priority>>,
    <<bug.type>>,
    escapeCSV(DisplayName(bug.assignedTo, <<"Unassigned">>)),
    escapeCSV(DisplayName(bug.reporter, <<"Unknown">>)),
    <<ToString(bug.createdAt)>>,
    <<ToString(bug.updatedAt)>>>>

CsvRow(bug) == Join(CsvFields(bug), <<",">>)

ExportResponse(q, found) ==
  [op |-> "export", q |-> q, status |-> 200,
   bugs |-> found,
   fields |-> [i \in 1..Len(found) |-> CsvFields(found[i])],
   csv |-> csvHeader \o Join([i \in 1..Len(found) |-> CsvRow(found[i])], <<"\n">>),
   reads |-> 1]

\* the responses the export can send for q over a store: one for each order
\* the sort may give
ExportOutcomes(store, us, q) ==
  IF CastFails(BuildFilter(q))
  THEN {[op |-> "export", q |-> q, status |-> 500,
         message |-> "Failed to export bugs", reads |-> 1]}
  ELSE {ExportResponse(q, PopulateAll(s, us)) :
          s \in SortedByCreatedDesc(Find(store, BuildFilter(q)))}

\* a variant that stamps the records it exports
ExportBugsStamping(q) ==
  /\ lst.pc = "idle"
  /\ ana.pc = "idle"
  /\ resp' \in ExportOutcomes(bugs, users, q)
  /\ bugs' = {IF Matches(b, BuildFilter(q)) THEN [b EXCEPT !.updatedAt = now + 1] ELSE b :
               b \in bugs}
  /\ UNCHANGED <<users, comments, cmt, dash, walk, nextId, now, lst, ana>>

ExportBugs(q) ==
  /\ lst.pc = "idle"
  /\ ana.pc = "idle"
  /\ resp' \in ExportOutcomes(bugs, users, q)
  /\ UNCHANGED <<users, comments, cmt, dash, walk, bugs, nextId, now, lst, ana>>

\* the read of the export rejects: the await throws into the catch block
ExportReadFails(q) ==
  /\ lst.pc = "idle"
  /\ ana.pc = "idle"
  /\ resp' = [op |-> "export", q |-> q, status |-> 500,
              message |-> "Failed to export bugs", reads |-> 1]
  /\ UNCHANGED <<users, comments, cmt, dash, walk, bugs, nextId, now, lst, ana>>

----------------------------------------------------------------------------
(* GET /api/bugs/analytics                                                 *)

\* the clock counts days; a month of the calendar has DaysPerMonth of them

CountFilters ==
  [totalBugs |-> [field |-> "none", value |-> "none"],
   openBugs |-> [field |-> "status", value |-> "open"],
   inProgressBugs |-> [field |-> "status", value |-> "in-progress"],
   resolvedBugs |-> [field |-> "status", value |-> "resolved"],
   closedBugs |-> [field |-> "status", value |-> "closed"],
   highPriorityBugs |-> [field |-> "priority", value |-> "high"],
   criticalPriorityBugs |-> [field |-> "priority", value |-> "critical"]]

CountNames == DOMAIN CountFilters

FlatCount(store, name) ==
  LET f == CountFilters[name]
  IN Cardinality({b \in store :
       \/ f.field = "none"
       \/ f.field = "status" /\ b.status = f.value
       \/ f.field = "priority" /\ b.priority = f.value})

\* a variant that groups only the statuses that have a counter of their own
GroupByCountedStatus(store) ==
  {[name |-> v, value |-> Cardinality({b \in store : b.status = v})] :
     v \in {b.status : b \in store} \cap {"open", "in-progress", "resolved", "closed"}}

\* aggregate([{ $group: { _id: '$status', count: { $sum: 1 } } }]); the
\* order of the groups is not specified and not kept here
GroupByStatus(store) ==
  {[name |-> v, value |-> Cardinality({b \in store : b.status = v})] :
     v \in {b.status : b \in store}}

\* a variant with an entry for every priority, of count 0 when none has it
GroupByPriorityZeroFilled(store) ==
  {[name |-> v, value |-> Cardinality({b \in store : b.priority = v})] :
     v \in PriorityEnum}

GroupByPriority(store) ==
  {[name |-> v, value |-> Cardinality({b \in store : b.priority = v})] :
     v \in {b.priority : b \in store}}

\* $match assignedTo != null, $lookup users, $unwind, $group by assignedTo
AssigneeGroups(store, us) ==
  {[id |-> a,
    name |-> us[a].firstName \o <<" ">> \o us[a].lastName,
    value |-> Cardinality({b \in store : b.assignedTo = a})] :
     a \in {b.assignedTo : b \in store} \cap DOMAIN us}

\* a variant that leaves the groups in any order
RECURSIVE GroupsInAnyOrder(_)
GroupsInAnyOrder(G) ==
  IF G = {} THEN {<<>>}
  ELSE UNION {{<<g>> \o s : s \in GroupsInAnyOrder(G \ {g})} : g \in G}

\* $sort { count: -1 }: groups of equal count come in any order
RECURSIVE SortedByCountDesc(_)
SortedByCountDesc(G) ==
  IF G = {} THEN {<<>>}
  ELSE UNION {{<<g>> \o s : s \in SortedByCountDesc(G \ {g})} :
                g \in {x \in G : \A y \in G : x.value >= y.value}}

YearOf(t) == t \div (DaysPerMonth * MonthsPerYear)
MonthOf(t) == ((t \div DaysPerMonth) % MonthsPerYear) + 1

\* sixMonthsAgo.setMonth(sixMonthsAgo.getMonth() - 6)
MonthsBefore(t, n) == t - n * DaysPerMonth

\* $match createdAt >= since, $group by year and month, $sort ascending
MonthlyGroups(store, since) ==
  LET recent == {b \in store : b.createdAt >= since}
      keys == {<<YearOf(b.createdAt), MonthOf(b.createdAt)>> : b \in recent}
      group(k) == [year |-> k[1], month |-> k[2],
                   count |-> Cardinality({b \in recent :
                     <<YearOf(b.createdAt), MonthOf(b.createdAt)>> = k})]
      before(g, h) == g.year < h.year \/ (g.year = h.year /\ g.month < h.month)
      G == {group(k) : k \in keys}
  IN CHOOSE s \in [1..Cardinality(G) -> G] :
       \A i, j \in 1..Cardinality(G) : i < j => before(s[i], s[j])

GetAnalytics ==
  /\ lst.pc = "idle"
  /\ ana.pc = "idle"
  /\ ana' = [pc |-> "counts", pending |-> CountNames,
             counts |-> [n \in CountNames |-> 0],
             statusStats |-> {}, priorityStats |-> {},
             recentBugs |-> 0, assigneeStats |-> <<>>, raced |-> FALSE,
             failed |-> {}, last7Days |-> 0, sixMonthsAgo |-> 0]
  /\ resp' = NoResponse
  /\ UNCHANGED <<users, comments, cmt, dash, walk, bugs, nextId, now, lst>>

\* one of the seven countDocuments of the first Promise.all
AnalyticsCount(name) ==
  /\ ana.pc = "counts"
  /\ name \in ana.pending
  /\ ana' = [ana EXCEPT !.pending = @ \ {name},
                        !.counts[name] = FlatCount(bugs, name),
                        !.pc = IF ana.pending = {name} THEN "statusStats" ELSE @]
  /\ resp' = NoResponse
  /\ UNCHANGED <<users, comments, cmt, dash, walk, bugs, nextId, now, lst>>

AnalyticsStatusStats ==
  /\ ana.pc = "statusStats"
  /\ ana' = [ana EXCEPT !.statusStats = GroupByStatus(bugs), !.pc = "priorityStats"]
  /\ resp' = NoResponse
  /\ UNCHANGED <<users, comments, cmt, dash, walk, bugs, nextId, now, lst>>

AnalyticsPriorityStats ==
  /\ ana.pc = "priorityStats"
  /\ ana' = [ana EXCEPT !.priorityStats = GroupByPriority(bugs), !.pc = "recentBugs"]
  /\ resp' = NoResponse
  /\ UNCHANGED <<users, comments, cmt, dash, walk, bugs, nextId, now, lst>>

\* last7Days is read off the clock when the priority distribution is back
AnalyticsRecentBugs ==
  /\ ana.pc = "recentBugs"
  /\ LET last7Days == now - SevenDays
     IN ana' = [ana EXCEPT !.recentBugs =
                  Cardinality({b \in bugs : b.createdAt >= last7Days}),
                !.last7Days = last7Days,
                !.pc = "assigneeStats"]
  /\ resp' = NoResponse
  /\ UNCHANGED <<users, comments, cmt, dash, walk, bugs, nextId, now, lst>>

AnalyticsAssigneeStats ==
  /\ ana.pc = "assigneeStats"
  /\ \E s \in SortedByCountDesc(AssigneeGroups(bugs, users)) :
       ana' = [ana EXCEPT !.assigneeStats = SubSeq(s, 1, Min(TopAssignees, Len(s))),
                          !.pc = "monthlyTrend"]
  /\ resp' = NoResponse
  /\ UNCHANGED <<users, comments, cmt, dash, walk, bugs, nextId, now, lst>>

AnalyticsResponse(a, monthlyTrend) ==
  [op |-> "analytics", status |-> 200,
   totalBugs |-> a.counts.totalBugs,
   openBugs |-> a.counts.openBugs,
   inProgressBugs |-> a.counts.inProgressBugs,
   resolvedBugs |-> a.counts.resolvedBugs,
   closedBugs |-> a.counts.closedBugs,
   highPriorityBugs |-> a.counts.highPriorityBugs,
   criticalBugs |-> a.counts.criticalPriorityBugs,
   recentBugs |-> a.recentBugs,
   statusDistribution |-> a.statusStats,
   priorityDistribution |-> a.priorityStats,
   assigneeStats |-> [i \in 1..Len(a.assigneeStats) |->
                        [name |-> a.assigneeStats[i].name,
                         value |-> a.assigneeStats[i].value]],
   monthlyTrend |-> monthlyTrend,
   raced |-> a.raced,
   failed |-> a.failed,
   last7Days |-> a.last7Days,
   sixMonthsAgo |-> a.sixMonthsAgo]

\* the last read, and res.json
AnalyticsMonthlyTrend ==
  /\ ana.pc = "monthlyTrend"
  /\ LET sixMonthsAgo == MonthsBefore(now, SixMonths)
     IN resp' = AnalyticsResponse([ana EXCEPT !.sixMonthsAgo = sixMonthsAgo],
                                  MonthlyGroups(bugs, sixMonthsAgo))
  /\ ana' = NoAnalytics
  /\ UNCHANGED <<users, comments, cmt, dash, walk, bugs, nextId, now, lst>>

\* the reads of a report after the counts, in the order they are awaited
LaterReads == <<"statusStats", "priorityStats", "recentBugs", "assigneeStats", "monthlyTrend">>

SubQueries == CountNames \cup {LaterReads[i] : i \in 1..Len(LaterReads)}

\* the reads the request in flight is waiting for
Awaited(a) ==
  IF a.pc = "idle" THEN {}
  ELSE IF a.pc = "counts" THEN a.pending
  ELSE {a.pc}

\* a variant that goes on after a read that failed, with the value the read
\* was given at the start
FailedReadDefaulted(a, name) ==
  [ana |-> [a EXCEPT !.failed = @ \cup {name},
                     !.pending = @ \ {name},
                     !.pc = IF a.pc = "counts"
                            THEN (IF a.pending = {name} THEN "statusStats" ELSE @)
                            ELSE IF name = "monthlyTrend" THEN "idle"
                            ELSE LaterReads[1 + CHOOSE i \in 1..Len(LaterReads) :
                                                  LaterReads[i] = name]],
   resp |-> IF name = "monthlyTrend"
            THEN AnalyticsResponse([a EXCEPT !.failed = @ \cup {name}], <<>>)
            ELSE NoResponse]

\* a read that rejects: the await throws into the catch block
FailedRead(a, name) ==
  [ana |-> NoAnalytics,
   resp |-> [op |-> "analytics", status |-> 500,
             message |-> "Failed to fetch analytics", failed |-> {name}]]

AnalyticsReadFails(name) ==
  /\ name \in Awaited(ana)
  /\ ana' = FailedRead(ana, name).ana
  /\ resp' = FailedRead(ana, name).resp
  /\ UNCHANGED <<users, comments, cmt, dash, walk, bugs, nextId, now, lst>>

----------------------------------------------------------------------------
(* A caller that reads the listing page by page, from page 1 on, with one  *)
(* filter and one page size, and keeps the windows it is sent              *)

\* the caller has taken the last response; no read is in flight
Ready == resp = NoResponse
Quiet == Ready /\ lst.pc = "idle" /\ ana.pc = "idle" /\ walk.pc = "idle"

\* the response goes out to the caller
Deliver ==
  /\ resp # NoResponse
  /\ resp' = NoResponse
  /\ UNCHANGED <<users, comments, cmt, dash, walk, bugs, nextId, now, lst, ana>>

PageParam(k) == <<ToString(k)>>

WalkStart(q) ==
  /\ Quiet
  /\ ValidationErrors(q) = {}
  /\ walk' = [pc |-> "walking", q |-> q, windows |-> <<>>, totalPages |-> 0]
  /\ resp' = NoResponse
  /\ UNCHANGED <<users, comments, cmt, dash, bugs, nextId, now, lst, ana>>

WalkRequest ==
  /\ Ready
  /\ walk.pc = "walking"
  /\ Len(walk.windows) = 0 \/ Len(walk.windows) < walk.totalPages
  /\ GetBugs([walk.q EXCEPT !.page = PageParam(Len(walk.windows) + 1)])

WalkReceive ==
  /\ walk.pc = "walking"
  /\ resp.op = "list"
  /\ resp.status = 200
  /\ walk' = [walk EXCEPT !.windows = Append(@, resp.bugs),
                          !.totalPages = resp.pagination.totalPages]
  /\ resp' = NoResponse
  /\ UNCHANGED <<users, comments, cmt, dash, bugs, nextId, now, lst, ana>>

WalkEnd ==
  /\ walk.pc = "walking"
  /\ lst.pc = "idle"
  /\ resp.op # "list"
  /\ walk' = NoWalk
  /\ resp' = NoResponse
  /\ UNCHANGED <<users, comments, cmt, dash, bugs, nextId, now, lst, ana>>

\* a caller that sends the same listing request again and keeps both answers
RepeatStart(q) ==
  /\ Quiet
  /\ ValidationErrors(q) = {}
  /\ walk' = [pc |-> "repeating", q |-> q, answers |-> <<>>]
  /\ resp' = NoResponse
  /\ UNCHANGED <<users, comments, cmt, dash, bugs, nextId, now, lst, ana>>

RepeatRequest ==
  /\ Ready
  /\ walk.pc = "repeating"
  /\ Len(walk.answers) < 2
  /\ GetBugs(walk.q)

RepeatReceive ==
  /\ walk.pc = "repeating"
  /\ resp.op = "list"
  /\ resp.status = 200
  /\ walk' = [walk EXCEPT !.answers =
                Append(@, [bugs |-> resp.bugs, pagination |-> resp.pagination])]
  /\ resp' = NoResponse
  /\ UNCHANGED <<users, comments, cmt, dash, bugs, nextId, now, lst, ana>>

RepeatEnd ==
  /\ walk.pc = "repeating"
  /\ Len(walk.answers) = 2
  /\ walk' = NoWalk
  /\ resp' = NoResponse
  /\ UNCHANGED <<users, comments, cmt, dash, bugs, nextId, now, lst, ana>>

----------------------------------------------------------------------------
(* Inputs                                                                  *)

Present(q) ==
  {f \in {"status", "priority", "type", "assignedTo", "reporter", "unassigned", "search"} :
     q[f] # Undefined}

\* raw filters with at most MaxFields parameters sent, valid and not
FilterQueries ==
  {q \in [page : {Undefined}, limit : {Undefined},
          status : {Undefined, <<"open">>, <<"closed">>, <<"bogus">>, <<>>},
          priority : {Undefined, <<"high">>, <<"bogus">>},
          type : {Undefined, <<"bug">>, <<"bogus">>},
          assignedTo : {Undefined, <<"u1">>, <<"u9">>, <<"notanid">>},
          reporter : {Undefined, <<"u2">>, <<"notanid">>},
          unassigned : {Undefined, <<"true">>, <<"false">>},
          search : {Undefined}] :
     Cardinality(Present(q)) <= MaxFields}

----------------------------------------------------------------------------
(* Specifications                                                          *)

\* every handler; writes are committed also between the two reads of a
\* listing (SpecAnalytics has them between the reads of a report)
Next ==
  \/ Quiet /\ Tick
  \/ Deliver
  \/ \E u \in UserIds, a \in {Undefined, <<"u1">>} :
       Ready /\ ana.pc = "idle" /\ CreateBug(u, <<"a">>, <<"a">>, <<"high">>, Undefined, a)
  \/ \E id \in 1..MaxBugs :
       Ready /\ ana.pc = "idle" /\ UpdateBug(id, [NoPatch EXCEPT !.status = <<"closed">>])
  \/ \E u \in UserIds, id \in 1..MaxBugs : Ready /\ ana.pc = "idle" /\ DeleteBug(u, id)
  \/ \E st \in {Undefined, <<"open">>} :
       Ready /\ GetBugs([NoQuery EXCEPT !.status = st, !.limit = <<"1">>])
  \/ GetBugsFind
  \/ GetBugsCount
  \/ GetBugsRespond
  \/ \E st \in {Undefined, <<"open">>} :
       Quiet /\ ExportBugs([NoQuery EXCEPT !.status = st])
  \/ Ready /\ GetAnalytics
  \/ \E n \in CountNames : AnalyticsCount(n)
  \/ AnalyticsStatusStats
  \/ AnalyticsPriorityStats
  \/ AnalyticsRecentBugs
  \/ AnalyticsAssigneeStats
  \/ AnalyticsMonthlyTrend

Spec == Init /\ [][Next]_vars

\* a listing with creations, updates and deletions between its two reads
NextRace ==
  \/ Deliver
  \/ Ready /\ CreateBug("u1", <<"a">>, <<"a">>, <<"high">>, Undefined, Undefined)
  \/ \E id \in 1..MaxBugs :
       Ready /\ UpdateBug(id, [NoPatch EXCEPT !.status = <<"closed">>])
  \/ \E id \in 1..MaxBugs : Ready /\ DeleteBug("u1", id)
  \/ \E st \in {Undefined, <<"open">>}, pg \in {Undefined, <<"2">>} :
       Ready /\ GetBugs([NoQuery EXCEPT !.status = st, !.page = pg, !.limit = <<"1">>])
  \/ GetBugsFind
  \/ GetBugsCount
  \/ GetBugsRespond

SpecRace == Init /\ [][NextRace]_vars

\* filters: records that differ in status and assignee, built while no read
\* is in flight, and every raw filter of at most MaxFields parameters
NextFilter ==
  \/ Deliver
  \/ \E a \in {Undefined, <<"u1">>} :
       Quiet /\ CreateBug("u2", <<"a">>, <<"a">>, <<"high">>, Undefined, a)
  \/ \E id \in 1..MaxBugs :
       Quiet /\ UpdateBug(id, [NoPatch EXCEPT !.status = <<"closed">>])
  \/ \E q \in FilterQueries : Ready /\ GetBugs(q)
  \/ GetBugsFind
  \/ GetBugsCount
  \/ GetBugsRespond
  \/ \E q \in FilterQueries : Ready /\ ExportBugs(q)

SpecFilter == Init /\ [][NextFilter]_vars

\* pages and page sizes as they arrive: absent, in range, out of range, not
\* numbers
RawPages ==
  {Undefined, <<"1">>, <<"2">>, <<"3">>, <<"0">>, <<"-", "1">>, <<"x">>, <<"+", "2">>}
RawLimits == {Undefined, <<"1">>, <<"2">>, <<"0">>, <<"1", "0", "1">>}
WalkLimits == {Undefined, <<"1">>, <<"2">>}

\* paging: the store grows between requests, time passes or does not between
\* two creations, and no write is committed while a request or a walk runs
NextPage ==
  \/ Quiet /\ Tick
  \/ walk.pc = "idle" /\ Deliver
  \/ \E p \in {<<"high">>, <<"low">>} :
       Quiet /\ CreateBug("u1", <<"a">>, <<"a">>, p, Undefined, Undefined)
  \/ \E pg \in RawPages, lm \in RawLimits :
       Quiet /\ GetBugs([NoQuery EXCEPT !.page = pg, !.limit = lm])
  \/ \E pr \in {Undefined, <<"high">>}, lm \in WalkLimits :
       WalkStart([NoQuery EXCEPT !.priority = pr, !.limit = lm])
  \/ WalkRequest
  \/ GetBugsFind
  \/ GetBugsCount
  \/ GetBugsRespond
  \/ WalkReceive
  \/ WalkEnd

SpecPage == Init /\ [][NextPage]_vars

\* titles and search strings over letters of both cases and the dot
SearchAlphabet == {"a", "A", "b", "."}
SearchTexts == Texts(SearchAlphabet, MaxLen) \ {<<>>}

\* search: records of any such title, then a listing or an export with any
\* such search string
NextSearch ==
  \/ Deliver
  \/ \E t \in SearchTexts, d \in {<<"b">>, <<"A", "b">>} :
       Quiet /\ CreateBug("u1", t, d, <<"high">>, Undefined, Undefined)
  \/ \E x \in SearchTexts \cup {<<>>, <<" ">>} :
       Ready /\ GetBugs([NoQuery EXCEPT !.search = x])
  \/ GetBugsFind
  \/ GetBugsCount
  \/ GetBugsRespond
  \/ \E x \in SearchTexts \cup {<<>>, <<" ">>} :
       Ready /\ ExportBugs([NoQuery EXCEPT !.search = x])

SpecSearch == Init /\ [][NextSearch]_vars

\* the example of the export's escaping
HeSaid == <<"H", "e", " ", "s", "a", "i", "d", ",", " ", "\"", "f", "i", "x", " ", "i", "t", "\"">>

\* titles and descriptions with and without the characters the export quotes
CsvAlphabet == {"a", ",", "\""}
CsvTexts == (Texts(CsvAlphabet, MaxLen) \ {<<>>}) \cup {<<"a", "\n", "a">>, HeSaid}

CsvDescriptions == {<<"a">>, <<"\"">>, HeSaid}

\* first names with and without them
CsvNames == {<<"a">>, <<"a", ",">>, <<"\"", "a">>}

InitCsv ==
  /\ users \in {[u \in UserIds |-> [TheUsers[u] EXCEPT !.firstName = fn[u]]] :
                  fn \in [UserIds -> CsvNames]}
  /\ EmptyStore

\* export: one record of any such title, description, assignee and reporter
NextCsv ==
  \/ Deliver
  \/ \E u \in UserIds, t \in CsvTexts, d \in CsvDescriptions, a \in {Undefined, <<"u1">>} :
       Quiet /\ bugs = {} /\ CreateBug(u, t, d, <<"high">>, Undefined, a)
  \/ Ready /\ ExportBugs(NoQuery)

SpecCsv == InitCsv /\ [][NextCsv]_vars

\* analytics: creations and status changes, committed also between the reads
\* of a report
NextAnalytics ==
  \/ Deliver
  \/ \E p \in {<<"high">>, <<"low">>} :
       Ready /\ CreateBug("u1", <<"a">>, <<"a">>, p, Undefined, Undefined)
  \/ \E id \in 1..MaxBugs :
       Ready /\ UpdateBug(id, [NoPatch EXCEPT !.status = <<"reopened">>])
  \/ Ready /\ GetAnalytics
  \/ \E n \in CountNames : AnalyticsCount(n)
  \/ AnalyticsStatusStats
  \/ AnalyticsPriorityStats
  \/ AnalyticsRecentBugs
  \/ AnalyticsAssigneeStats
  \/ AnalyticsMonthlyTrend

SpecAnalytics == Init /\ [][NextAnalytics]_vars

\* the queries of the listing and of the export over a failing store
FailureQueries ==
  {NoQuery, [NoQuery EXCEPT !.limit = <<"1">>], [NoQuery EXCEPT !.status = <<"bogus">>]}

\* listing, export and analytics over a store that can fail any read
NextFailure ==
  \/ Deliver
  \/ \E a \in {Undefined, <<"u1">>} :
       Quiet /\ CreateBug("u1", <<"a">>, <<"a">>, <<"high">>, Undefined, a)
  \/ Ready /\ GetAnalytics
  \/ \E n \in CountNames : AnalyticsCount(n)
  \/ AnalyticsStatusStats
  \/ AnalyticsPriorityStats
  \/ AnalyticsRecentBugs
  \/ AnalyticsAssigneeStats
  \/ AnalyticsMonthlyTrend
  \/ \E n \in SubQueries : AnalyticsReadFails(n)
  \/ \E q \in FailureQueries : Ready /\ GetBugs(q)
  \/ GetBugsFind
  \/ GetBugsCount
  \/ GetBugsRespond
  \/ \E n \in {"find", "count"} : GetBugsReadFails(n)
  \/ \E q \in FailureQueries : Ready /\ ExportBugs(q)
  \/ \E q \in FailureQueries : Ready /\ ExportReadFails(q)

SpecFailure == Init /\ [][NextFailure]_vars

\* export: records of two priorities created at the same time or at
\* different times, with and without a line feed in the title
NextExport ==
  \/ Quiet /\ Tick
  \/ Deliver
  \/ \E t \in {<<"a">>, <<"a", "\n", "a">>}, p \in {<<"high">>, <<"low">>} :
       Quiet /\ CreateBug("u1", t, <<"a">>, p, Undefined, Undefined)
  \/ \E p \in {Undefined, <<"high">>, <<"bogus">>} :
       Ready /\ ExportBugs([NoQuery EXCEPT !.priority = p])

SpecExport == Init /\ [][NextExport]_vars

\* the same listing twice: records created at the same time or at different
\* times, and no write from the first request to the second answer
NextRepeat ==
  \/ Quiet /\ Tick
  \/ walk.pc = "idle" /\ Deliver
  \/ \E p \in {<<"high">>, <<"low">>} :
       Quiet /\ CreateBug("u1", <<"a">>, <<"a">>, p, Undefined, Undefined)
  \/ \E pr \in {Undefined, <<"high">>}, pg \in {Undefined, <<"2">>}, lm \in WalkLimits :
       RepeatStart([NoQuery EXCEPT !.priority = pr, !.page = pg, !.limit = lm])
  \/ RepeatRequest
  \/ GetBugsFind
  \/ GetBugsCount
  \/ GetBugsRespond
  \/ RepeatReceive
  \/ RepeatEnd

SpecRepeat == Init /\ [][NextRepeat]_vars

\* the monthly trend: records created half a month apart or more, over
\* somewhat more than six months, and no write during a report
NextTrend ==
  \/ Quiet /\ HalfMonthPasses
  \/ Deliver
  \/ Quiet /\ CreateBug("u1", <<"a">>, <<"a">>, <<"high">>, Undefined, Undefined)
  \/ Ready /\ GetAnalytics
  \/ \E n \in CountNames : AnalyticsCount(n)
  \/ AnalyticsStatusStats
  \/ AnalyticsPriorityStats
  \/ AnalyticsRecentBugs
  \/ AnalyticsAssigneeStats
  \/ AnalyticsMonthlyTrend

SpecTrend == Init /\ [][NextTrend]_vars

\* analytics while the clock goes on
NextClock ==
  \/ Ready /\ Tick
  \/ Deliver
  \/ Quiet /\ CreateBug("u1", <<"a">>, <<"a">>, <<"high">>, Undefined, Undefined)
  \/ Ready /\ GetAnalytics
  \/ \E n \in CountNames : AnalyticsCount(n)
  \/ AnalyticsStatusStats
  \/ AnalyticsPriorityStats
  \/ AnalyticsRecentBugs
  \/ AnalyticsAssigneeStats
  \/ AnalyticsMonthlyTrend

SpecClock == Init /\ [][NextClock]_vars

\* users enough for more assignees than the report lists
ManyUserSeq == <<"u1", "u2", "u3", "u4", "u5", "u6">>
ManyUserIds == {ManyUserSeq[i] : i \in 1..Len(ManyUserSeq)}

ManyUsers ==
  [u \in ManyUserIds |->
     [firstName |-> <<"a">>, lastName |-> <<u>>, role |-> "developer"]]

\* the store after load[u] bugs were created for every user u, and one for
\* nobody
StoreOfLoad(load) ==
  {NewBug((p[1] - 1) * MaxLoad + p[2], "u1", <<"a">>, <<"a">>, <<"high">>, Undefined,
          <<ManyUserSeq[p[1]]>>, 0) :
     p \in {q \in (1..Len(ManyUserSeq)) \X (1..MaxLoad) : q[2] <= load[ManyUserSeq[q[1]]]}}
  \cup {NewBug(Len(ManyUserSeq) * MaxLoad + 1, "u1", <<"a">>, <<"a">>, <<"high">>,
                Undefined, Undefined, 0)}

InitAssignee ==
  /\ users = ManyUsers
  /\ bugs \in {StoreOfLoad(load) : load \in [ManyUserIds -> 0..MaxLoad]}
  /\ comments = {}
  /\ cmt = NoComment
  /\ dash = NoDashboard
  /\ nextId = Len(ManyUserSeq) * MaxLoad + 2
  /\ now = 0
  /\ lst = NoListing
  /\ ana = NoAnalytics
  /\ resp = NoResponse
  /\ walk = NoWalk

\* the report over such a store
NextAssignee ==
  \/ Deliver
  \/ Ready /\ GetAnalytics
  \/ \E n \in CountNames : AnalyticsCount(n)
  \/ AnalyticsStatusStats
  \/ AnalyticsPriorityStats
  \/ AnalyticsRecentBugs
  \/ AnalyticsAssigneeStats
  \/ AnalyticsMonthlyTrend

SpecAssignee == InitAssignee /\ [][NextAssignee]_vars

----------------------------------------------------------------------------
(* The comments: POST /api/comments and DELETE /api/comments/:id, each up  *)
(* to its write and from there                                             *)

\* POST /api/comments by user u up to comment.save(): the bug and the
\* parent are looked up
PostComment(u, bugId, parentCommentId) ==
  /\ cmt.creating = NoPost
  /\ cmt.nextId <= MaxComments
  /\ IF \A b \in bugs : b.id # bugId
     THEN /\ resp' = [op |-> "comment", status |-> 404]
          /\ cmt' = cmt
     ELSE IF parentCommentId # NULL /\ \A c \in comments : c.id # parentCommentId
     THEN /\ resp' = [op |-> "comment", status |-> 404]
          /\ cmt' = cmt
     ELSE IF parentCommentId # NULL
             /\ \E c \in comments : c.id = parentCommentId /\ c.bug # bugId
     THEN /\ resp' = [op |-> "comment", status |-> 400]
          /\ cmt' = cmt
     ELSE /\ cmt' = [cmt EXCEPT !.creating =
                       [bug |-> bugId, author |-> authenticateToken(u).id,
                        parentComment |-> parentCommentId]]
          /\ resp' = NoResponse
  /\ UNCHANGED <<users, comments, dash, walk, bugs, nextId, now, lst, ana>>

\* comment.save() and the response
PostCommentSave ==
  /\ cmt.creating # NoPost
  /\ comments' = comments \cup
       {[id |-> ToString(cmt.nextId), bug |-> cmt.creating.bug,
         author |-> cmt.creating.author,
         parentComment |-> cmt.creating.parentComment]}
  /\ cmt' = [cmt EXCEPT !.creating = NoPost, !.nextId = @ + 1]
  /\ resp' = [op |-> "comment", status |-> 201]
  /\ UNCHANGED <<users, dash, walk, bugs, nextId, now, lst, ana>>

\* DELETE /api/comments/:id by user u up to its second write:
\* Comment.deleteMany({ parentComment: comment._id })
DeleteComment(u, id) ==
  /\ cmt.deleting = NULL
  /\ IF \A c \in comments : c.id # id
     THEN /\ resp' = [op |-> "uncomment", status |-> 404]
          /\ UNCHANGED <<comments, cmt>>
     ELSE LET comment == CHOOSE c \in comments : c.id = id
              isAuthor == comment.author = authenticateToken(u).id
              hasDeletePermission == authenticateToken(u).role \in {"admin", "manager"}
          IN IF ~isAuthor /\ ~hasDeletePermission
             THEN /\ resp' = [op |-> "uncomment", status |-> 403]
                  /\ UNCHANGED <<comments, cmt>>
             ELSE /\ comments' = {c \in comments : c.parentComment # id}
                  /\ cmt' = [cmt EXCEPT !.deleting = id]
                  /\ resp' = NoResponse
  /\ UNCHANGED <<users, dash, walk, bugs, nextId, now, lst, ana>>

\* Comment.findByIdAndDelete(req.params.id) and the response
DeleteCommentEnd ==
  /\ cmt.deleting # NULL
  /\ comments' = {c \in comments : c.id # cmt.deleting}
  /\ cmt' = [cmt EXCEPT !.deleting = NULL]
  /\ resp' = [op |-> "uncomment", status |-> 200]
  /\ UNCHANGED <<users, dash, walk, bugs, nextId, now, lst, ana>>

CommentIds == {ToString(i) : i \in 1..MaxComments}

NextComment ==
  \/ Deliver
  \/ Quiet /\ CreateBug("u1", <<"a">>, <<"a">>, <<"high">>, Undefined, Undefined)
  \/ \E u \in UserIds, b \in 1..MaxBugs, p \in CommentIds \cup {NULL} :
       Ready /\ PostComment(u, b, p)
  \/ PostCommentSave
  \/ \E u \in UserIds, id \in CommentIds : Ready /\ DeleteComment(u, id)
  \/ DeleteCommentEnd

SpecComment == Init /\ [][NextComment]_vars

----------------------------------------------------------------------------
(* The dashboard page of the client: its filters, its current page, the    *)
(* effects of the render that was committed, and the listing request it    *)
(* issued last                                                             *)

\* the page mounts: useState({}) and useState(1); every effect runs once
DashboardMount ==
  /\ dash.pc = "closed"
  /\ dash' = [pc |-> "open", filters |-> NoQuery, currentPage |-> 1,
              effects |-> <<"reset", "query">>, queued |-> 0,
              last |-> [filters |-> NoQuery, page |-> 0], seq |-> 0,
              changed |-> FALSE]
  /\ UNCHANGED <<users, comments, cmt, bugs, nextId, now, lst, ana, resp, walk>>

\* onFiltersChange = setFilters: the render with the new filters has the
\* page as it was; the effect on [filters] and the query, whose key changed,
\* are to run, in the order of their hooks
FiltersChange(f) ==
  /\ dash.pc = "open"
  /\ dash.effects = <<>>
  /\ dash.queued = 0
  /\ f # dash.filters
  /\ dash' = [dash EXCEPT !.filters = f, !.effects = <<"reset", "query">>,
                          !.changed = TRUE]
  /\ UNCHANGED <<users, comments, cmt, bugs, nextId, now, lst, ana, resp, walk>>

\* the Previous and Next buttons: setCurrentPage
PageChange(p) ==
  /\ dash.pc = "open"
  /\ dash.effects = <<>>
  /\ dash.queued = 0
  /\ p \in {dash.currentPage - 1, dash.currentPage + 1} \cap (1..MaxPage)
  /\ dash' = [dash EXCEPT !.currentPage = p, !.effects = <<"query">>,
                          !.changed = FALSE]
  /\ UNCHANGED <<users, comments, cmt, bugs, nextId, now, lst, ana, resp, walk>>

\* the next effect of the committed render: setCurrentPage(1) queues a
\* render when the page is not 1; the query calls bugsApi.getBugs with the
\* filters and the page of the render it belongs to
DashEffect ==
  /\ dash.pc = "open"
  /\ dash.effects # <<>>
  /\ dash' = IF Head(dash.effects) = "reset"
             THEN [dash EXCEPT !.effects = Tail(@),
                               !.queued = IF dash.currentPage # 1 THEN 1 ELSE 0]
             ELSE [dash EXCEPT !.effects = Tail(@),
                               !.last = [filters |-> dash.filters,
                                         page |-> dash.currentPage],
                               !.seq = 1 - @]
  /\ UNCHANGED <<users, comments, cmt, bugs, nextId, now, lst, ana, resp, walk>>

\* the render that setCurrentPage(1) queued, after the effects have run
DashRender ==
  /\ dash.pc = "open"
  /\ dash.effects = <<>>
  /\ dash.queued # 0
  /\ dash' = [dash EXCEPT !.currentPage = dash.queued, !.queued = 0,
                          !.effects = <<"query">>]
  /\ UNCHANGED <<users, comments, cmt, bugs, nextId, now, lst, ana, resp, walk>>

NextDash ==
  \/ DashboardMount
  \/ \E s \in {Undefined, <<"open">>, <<"closed">>}, p \in {Undefined, <<"high">>} :
       FiltersChange([NoQuery EXCEPT !.status = s, !.priority = p])
  \/ \E p \in 1..MaxPage : PageChange(p)
  \/ DashEffect
  \/ DashRender

SpecDash == Init /\ [][NextDash]_vars

----------------------------------------------------------------------------
(* Specifications of the server, continued                                 *)

\* deletions among creations, changes of reporter and changes of role
NextDelete ==
  \/ Deliver
  \/ \E u \in UserIds :
       Ready /\ CreateBug(u, <<"a">>, <<"a">>, <<"high">>, Undefined, Undefined)
  \/ \E id \in 1..MaxBugs, r \in UserIds :
       Ready /\ UpdateBug(id, [NoPatch EXCEPT !.reporter = <<r>>])
  \/ \E u \in UserIds, id \in ObjectIds, role \in Roles \cup {"guest"} :
       Ready /\ UpdateUserRole(u, id, role)
  \/ \E u \in UserIds, id \in 1..MaxBugs : Ready /\ DeleteBug(u, id)

SpecDelete == Init /\ [][NextDelete]_vars

----------------------------------------------------------------------------
(* Claims about the filters, checked under SpecFilter                      *)

Ids(s) == {s[i].id : i \in 1..Len(s)}

Served(r) == r.op \in {"list", "export"} /\ r.status = 200

\* a listing response whose reads saw the store as it is now
Current(r) == (r.op = "list" /\ r.status = 200) => ~r.raced

WholeResult(r) ==
  r.op = "list" =>
    /\ PageOf(r.q) = 1
    /\ Cardinality(bugs) <= LimitOf(r.q)

\* C1: the totalCount of a listing under a valid filter is the number of
\* data rows the export sends under the same filter over the same store
C1_TotalCountIsExportRowCount ==
  (resp.op = "list" /\ resp.status = 200 /\ ~resp.raced) =>
    \A x \in ExportOutcomes(bugs, users, resp.q) :
      /\ x.status = 200
      /\ resp.pagination.totalCount = Len(x.fields)

C1_Witness ==
  /\ resp.op = "list"
  /\ resp.status = 200
  /\ ~resp.raced
  /\ Cardinality(Present(resp.q)) = MaxFields
  /\ resp.pagination.totalCount = 1
  /\ Cardinality(bugs) = MaxBugs

\* what the other parameters of a request ask of a record
SatisfiesOthers(b, q) ==
  /\ Truthy(q.status) => <<b.status>> = q.status
  /\ Truthy(q.priority) => <<b.priority>> = q.priority
  /\ Truthy(q.type) => <<b.type>> = q.type
  /\ Truthy(q.reporter) => <<b.reporter>> = q.reporter

OnlyAssignedToInvalid(q) == ValidationErrors(q) \subseteq {"assignedTo"}

\* C5 as claimed: with unassigned=true a request is served, whatever its
\* assignedTo, with exactly the records that have no assignee
C5_AnyAssignedToIsIgnored ==
  (/\ resp.op \in {"list", "export"}
   /\ resp.q.unassigned = <<"true">>
   /\ OnlyAssignedToInvalid(resp.q)
   /\ Current(resp)) =>
    /\ resp.status = 200
    /\ Ids(resp.bugs) = {b.id : b \in {c \in bugs :
                           c.assignedTo = NULL /\ SatisfiesOthers(c, resp.q)}}

\* C5 as amended: a served request with unassigned=true matches exactly the
\* records with no assignee, whatever its assignedTo; the export is served
\* whatever the assignedTo; the listing answers 400 when the assignedTo is
\* not an identifier, and is served when it is one
C5_UnassignedOverridesAssignedTo ==
  (/\ resp.op \in {"list", "export"}
   /\ resp.q.unassigned = <<"true">>
   /\ OnlyAssignedToInvalid(resp.q)
   /\ Current(resp)) =>
    /\ (Served(resp) /\ WholeResult(resp)) =>
         Ids(resp.bugs) = {b.id : b \in {c \in bugs :
                             c.assignedTo = NULL /\ SatisfiesOthers(c, resp.q)}}
    /\ resp.op = "export" => resp.status = 200
    /\ resp.op = "list" =>
         IF resp.q.assignedTo = Undefined \/ isMongoId(resp.q.assignedTo)
         THEN resp.status = 200
         ELSE resp.status = 400 /\ "assignedTo" \in resp.errors

C5_Witness ==
  /\ Served(resp)
  /\ resp.q.unassigned = <<"true">>
  /\ resp.q.assignedTo = <<"u1">>
  /\ Len(resp.bugs) = 1
  /\ \E b \in bugs : b.assignedTo = "u1"

\* the filter parameters of q that are sent and are not what the listing takes
Offending(q) ==
  {f \in {"status"} : q.status # Undefined /\ (Len(q.status) # 1 \/ q.status[1] \notin StatusEnum)}
  \cup {f \in {"priority"} : q.priority # Undefined /\ (Len(q.priority) # 1 \/ q.priority[1] \notin PriorityEnum)}
  \cup {f \in {"type"} : q.type # Undefined /\ (Len(q.type) # 1 \/ q.type[1] \notin TypeEnum)}
  \cup {f \in {"assignedTo"} : q.assignedTo # Undefined /\ (Len(q.assignedTo) # 1 \/ q.assignedTo[1] \notin ObjectIds)}
  \cup {f \in {"reporter"} : q.reporter # Undefined /\ (Len(q.reporter) # 1 \/ q.reporter[1] \notin ObjectIds)}

\* C9: a listing request with an offending filter parameter is answered 400
\* with every offending parameter named, and none of its reads is issued
C9_InvalidFilterRejectedBeforeAnyRead ==
  /\ (resp.op = "list" /\ Offending(resp.q) # {}) =>
       /\ resp.status = 400
       /\ Offending(resp.q) \subseteq resp.errors
       /\ resp.reads = 0
       /\ lst.pc = "idle"
  /\ lst.pc # "idle" => Offending(lst.q) = {}

C9_Witness ==
  /\ resp.op = "list"
  /\ resp.status = 400
  /\ resp.errors = {"status", "reporter"}
  /\ bugs # {}

\* C10: the export takes a raw filter as the listing does: it answers 400
\* exactly when the listing would, and else queries with the same predicate
C10_ExportValidatesLikeListing ==
  resp.op = "export" => (resp.status = 400 <=> ValidationErrors(resp.q) # {})

\* the records a raw filter asks for, read off the parameters it carries
AskedFor(c, q) ==
  /\ SatisfiesOthers(c, q)
  /\ IF q.unassigned = <<"true">> THEN c.assignedTo = NULL
     ELSE Truthy(q.assignedTo) => <<c.assignedTo>> = q.assignedTo

\* C25: a served listing or export has exactly the records that satisfy the
\* parameters the request carries: a parameter that is not sent excludes no
\* record, the records are held to have no assignee exactly when unassigned
\* is "true", and any other unassigned excludes no record
C25_AbsentFieldIsNoConstraint ==
  /\ (Served(resp) /\ Current(resp) /\ WholeResult(resp)) =>
       Ids(resp.bugs) = {c.id : c \in {b \in bugs : AskedFor(b, resp.q)}}
  /\ resp.op \in {"list", "export"} =>
       LET f == BuildFilter(resp.q)
       IN /\ f.assignedTo = Null <=> resp.q.unassigned = <<"true">>
          /\ \A k \in {"status", "priority", "type", "reporter", "search"} :
               resp.q[k] = Undefined => f[k] = NoConstraint
          /\ (resp.q.assignedTo = Undefined /\ resp.q.unassigned # <<"true">>) =>
               f.assignedTo = NoConstraint

\* a request with unassigned=false and no assignedTo is served a record with
\* an assignee and a record without
C25_Witness ==
  /\ Served(resp)
  /\ resp.q.unassigned = <<"false">>
  /\ resp.q.assignedTo = Undefined
  /\ Len(resp.bugs) = 2
  /\ \E b \in bugs : b.assignedTo = NULL
  /\ \E b \in bugs : b.assignedTo = "u1"

----------------------------------------------------------------------------
(* Claims about paging, checked under SpecPage                             *)

RECURSIVE Concat(_)
Concat(ws) == IF Len(ws) = 0 THEN <<>> ELSE Head(ws) \o Concat(Tail(ws))

\* the walk has the window of every page from 1 to totalPages
WalkComplete ==
  /\ walk.pc = "walking"
  /\ Len(walk.windows) >= 1
  /\ Len(walk.windows) >= walk.totalPages

\* C2: the windows of pages 1..ceil(N/pageSize), with no write meanwhile,
\* hold every matching record exactly once, and their concatenation is in
\* descending creation order
C2_WindowsPartitionMatchingSet ==
  WalkComplete =>
    LET all == Concat(walk.windows)
    IN /\ Ids(all) = {b.id : b \in Find(bugs, BuildFilter(walk.q))}
       /\ \A i, j \in 1..Len(all) : i < j =>
            /\ all[i].id # all[j].id
            /\ all[i].createdAt >= all[j].createdAt

\* the page and the page size a request asks for
RequestedPage(q) == IF q.page = Undefined THEN DefaultPage ELSE IntValue(q.page)
RequestedLimit(q) == IF q.limit = Undefined THEN DefaultLimit ELSE IntValue(q.limit)

\* C3: in every pagination envelope currentPage is the requested page,
\* totalPages is the least number of pages of the page size that hold
\* totalCount records, hasNext is currentPage < totalPages and hasPrev is
\* currentPage > 1
C3_EnvelopeArithmetic ==
  (resp.op = "list" /\ resp.status = 200) =>
    LET e == resp.pagination
        size == RequestedLimit(resp.q)
    IN /\ e.currentPage = RequestedPage(resp.q)
       /\ e.totalPages * size >= e.totalCount
       /\ (e.totalPages - 1) * size < e.totalCount \/ e.totalPages = 0
       /\ e.totalPages >= 0
       /\ e.hasNext = (e.currentPage < e.totalPages)
       /\ e.hasPrev = (e.currentPage > 1)

C3_Witness ==
  /\ resp.op = "list"
  /\ resp.status = 200
  /\ resp.q.limit = <<"1">>
  /\ resp.pagination.currentPage = 2
  /\ resp.pagination.totalCount = MaxBugs
  /\ resp.pagination.hasPrev

\* C4: when nothing matches, the envelope has totalPages = 1, hasNext and
\* hasPrev false, and currentPage as requested
C4_EmptyResultHasOnePage ==
  (resp.op = "list" /\ resp.status = 200 /\ resp.pagination.totalCount = 0) =>
    /\ resp.pagination.totalPages = 1
    /\ ~resp.pagination.hasNext
    /\ ~resp.pagination.hasPrev
    /\ resp.pagination.currentPage = RequestedPage(resp.q)

\* the page or the page size of q is a number out of its range
PageOutOfRange(q) == q.page # Undefined /\ isIntText(q.page) /\ IntValue(q.page) < 1
LimitOutOfRange(q) ==
  q.limit # Undefined /\ isIntText(q.limit)
  /\ (IntValue(q.limit) < 1 \/ IntValue(q.limit) > 100)

\* C15: a listing with a page under 1 or a page size outside 1..100 is
\* answered 400 with the parameter named and none of its reads issued; a
\* listing with no page reads page 1, and one with no page size reads 10
\* records a page
C15_PaginationRangeAndDefaults ==
  /\ (resp.op = "list" /\ (PageOutOfRange(resp.q) \/ LimitOutOfRange(resp.q))) =>
       /\ resp.status = 400
       /\ PageOutOfRange(resp.q) => "page" \in resp.errors
       /\ LimitOutOfRange(resp.q) => "limit" \in resp.errors
       /\ resp.reads = 0
       /\ lst.pc = "idle"
  /\ lst.pc # "idle" =>
       /\ ~PageOutOfRange(lst.q) /\ ~LimitOutOfRange(lst.q)
       /\ lst.q.page = Undefined => PageOf(lst.q) = 1
       /\ lst.q.limit = Undefined => LimitOf(lst.q) = 10
       /\ (lst.q.page = Undefined /\ lst.q.limit = Undefined) => SkipOf(lst.q) = 0
  /\ (resp.op = "list" /\ resp.status = 200) =>
       /\ resp.q.page = Undefined => resp.pagination.currentPage = 1
       /\ (resp.q.page = Undefined /\ resp.q.limit = Undefined /\ ~resp.raced) =>
            /\ Len(resp.bugs) = IF Cardinality(bugs) < 10 THEN Cardinality(bugs) ELSE 10
            /\ resp.pagination.totalPages * 10 >= resp.pagination.totalCount

C15_Witness ==
  /\ resp.op = "list"
  /\ resp.status = 400
  /\ resp.q.limit = <<"1", "0", "1">>
  /\ resp.errors = {"limit"}
  /\ bugs # {}

\* C16: a listing of a page beyond totalPages is answered with that page as
\* currentPage, no record, hasNext false and hasPrev true
C16_PageBeyondLastIsNotClamped ==
  (/\ resp.op = "list"
   /\ resp.status = 200
   /\ RequestedPage(resp.q) > resp.pagination.totalPages) =>
    /\ resp.pagination.currentPage = RequestedPage(resp.q)
    /\ resp.bugs = <<>>
    /\ ~resp.pagination.hasNext
    /\ resp.pagination.hasPrev

\* the same for every page but the first
C16_BeyondLastAfterFirstPage ==
  (/\ resp.op = "list"
   /\ resp.status = 200
   /\ RequestedPage(resp.q) > 1
   /\ RequestedPage(resp.q) > resp.pagination.totalPages) =>
    /\ resp.pagination.currentPage = RequestedPage(resp.q)
    /\ resp.bugs = <<>>
    /\ ~resp.pagination.hasNext
    /\ resp.pagination.hasPrev

----------------------------------------------------------------------------
(* Claims about the search, checked under SpecSearch                       *)

\* s is in field as it stands, letter for letter, whatever the case
ContainsIgnoringCase(field, x) ==
  \E i \in 1..(Len(field) - Len(x) + 1) :
    \A k \in 1..Len(x) : Lower(field[i + k - 1]) = Lower(x[k])

\* C6: with a non-empty search string a listing or an export matches exactly
\* the records whose title or description contains the string literally,
\* whatever the case
C6_SearchIsLiteralSubstring ==
  (/\ Served(resp)
   /\ resp.q.search # Undefined
   /\ Len(resp.q.search) > 0
   /\ Current(resp)
   /\ WholeResult(resp)) =>
    Ids(resp.bugs) = {b.id : b \in {c \in bugs :
                        \/ ContainsIgnoringCase(c.title, resp.q.search)
                        \/ ContainsIgnoringCase(c.description, resp.q.search)}}

\* a search string with nothing but white space in it
Blank(x) == x # Undefined /\ \A i \in 1..Len(x) : x[i] = " "

\* C24: a listing or an export whose search is empty or only white space
\* matches the records the same request without search matches
C24_BlankSearchIsNoSearch ==
  (Served(resp) /\ Blank(resp.q.search) /\ Current(resp) /\ WholeResult(resp)) =>
    Ids(resp.bugs) = {b.id : b \in Find(bugs, BuildFilter([resp.q EXCEPT !.search = Undefined]))}

\* an empty search is no constraint
C24_EmptySearchIsNoSearch ==
  (Served(resp) /\ resp.q.search = <<>> /\ Current(resp) /\ WholeResult(resp)) =>
    Ids(resp.bugs) = {b.id : b \in Find(bugs, BuildFilter([resp.q EXCEPT !.search = Undefined]))}

----------------------------------------------------------------------------
(* Claims about the export's escaping, checked under SpecCsv               *)

QuotedChars == {",", "\"", "\n"}

NeedsQuoting(raw) == \E k \in 1..Len(raw) : raw[k] \in QuotedChars

\* inner with every pair of double quotes read as one; a double quote that
\* stands alone is kept as a pair, so that no raw text answers to it
RECURSIVE Undoubled(_)
Undoubled(inner) ==
  IF Len(inner) = 0 THEN <<>>
  ELSE IF inner[1] # "\"" THEN <<inner[1]>> \o Undoubled(Tail(inner))
  ELSE IF Len(inner) >= 2 /\ inner[2] = "\""
       THEN <<"\"">> \o Undoubled(Tail(Tail(inner)))
       ELSE <<"\"", "\"">> \o Undoubled(Tail(inner))

\* out is raw as the export has to emit it
EmittedAs(raw, out) ==
  IF NeedsQuoting(raw)
  THEN /\ Len(out) >= 2
       /\ out[1] = "\""
       /\ out[Len(out)] = "\""
       /\ Undoubled(SubSeq(out, 2, Len(out) - 1)) = raw
       /\ Len(out) = 2 + Len(raw) + Cardinality({k \in 1..Len(raw) : raw[k] = "\""})
  ELSE out = raw

FullName(u) == users[u].firstName \o <<" ">> \o users[u].lastName

HeSaidEmitted ==
  <<"\"", "H", "e", " ", "s", "a", "i", "d", ",", " ", "\"", "\"", "f", "i", "x",
    " ", "i", "t", "\"", "\"", "\"">>

\* C8: in every row of the export the title, the description, the assignee's
\* name and the reporter's name are wrapped in double quotes with their
\* double quotes doubled when they hold a comma, a double quote or a
\* newline, and are emitted as they are when they hold none
C8_ExportQuotesFields ==
  (resp.op = "export" /\ resp.status = 200) =>
    /\ Len(resp.fields) = Len(resp.bugs)
    /\ \A i \in 1..Len(resp.bugs) :
         \E b \in bugs :
           /\ b.id = resp.bugs[i].id
           /\ EmittedAs(b.title, resp.fields[i][2])
           /\ EmittedAs(b.description, resp.fields[i][3])
           /\ EmittedAs(IF b.assignedTo = NULL THEN <<"Unassigned">>
                        ELSE FullName(b.assignedTo), resp.fields[i][7])
           /\ EmittedAs(FullName(b.reporter), resp.fields[i][8])
           /\ b.description = HeSaid => resp.fields[i][3] = HeSaidEmitted

C8_Witness ==
  /\ resp.op = "export"
  /\ resp.status = 200
  /\ Len(resp.fields) = 1
  /\ resp.fields[1][2] = <<"\"", "a", "\n", "a", "\"">>
  /\ resp.fields[1][3] = HeSaidEmitted
  /\ resp.fields[1][7] = <<"\"", "a", ",", " ", "b", "\"">>
  /\ resp.fields[1][8] = <<"a", " ", "b">>

----------------------------------------------------------------------------
(* Claims about the analytics report, checked under SpecAnalytics          *)

RECURSIVE SumOfValues(_)
SumOfValues(D) ==
  IF D = {} THEN 0
  ELSE LET d == CHOOSE x \in D : TRUE IN d.value + SumOfValues(D \ {d})

\* C7: in a report during whose reads no write was committed, the values of
\* statusDistribution add up to totalBugs, and so do those of
\* priorityDistribution
C7_DistributionsSumToTotal ==
  (resp.op = "analytics" /\ resp.status = 200 /\ ~resp.raced) =>
    /\ SumOfValues(resp.statusDistribution) = resp.totalBugs
    /\ SumOfValues(resp.priorityDistribution) = resp.totalBugs

C7_Witness ==
  /\ resp.op = "analytics"
  /\ resp.status = 200
  /\ ~resp.raced
  /\ resp.totalBugs = MaxBugs
  /\ \E d \in resp.statusDistribution : d.name = "reopened"
  /\ Cardinality(resp.statusDistribution) = 2
  /\ Cardinality(resp.priorityDistribution) = 2

\* the count of the entry of a distribution for a value, 0 without one
EntryOf(dist, v) == SumOfValues({d \in dist : d.name = v})

\* C27: in every report, whatever was written while it was read, totalBugs
\* is the sum of statusDistribution and each flat counter is the entry of
\* its value in the distribution
C27_ReportIsConsistentUnderWrites ==
  (resp.op = "analytics" /\ resp.status = 200) =>
    /\ SumOfValues(resp.statusDistribution) = resp.totalBugs
    /\ resp.openBugs = EntryOf(resp.statusDistribution, "open")
    /\ resp.inProgressBugs = EntryOf(resp.statusDistribution, "in-progress")
    /\ resp.resolvedBugs = EntryOf(resp.statusDistribution, "resolved")
    /\ resp.closedBugs = EntryOf(resp.statusDistribution, "closed")
    /\ resp.highPriorityBugs = EntryOf(resp.priorityDistribution, "high")
    /\ resp.criticalBugs = EntryOf(resp.priorityDistribution, "critical")

\* what holds: the same of the reports no write raced
C27_ConsistentWithoutWrites ==
  (resp.op = "analytics" /\ resp.status = 200 /\ ~resp.raced) =>
    /\ SumOfValues(resp.statusDistribution) = resp.totalBugs
    /\ resp.openBugs = EntryOf(resp.statusDistribution, "open")
    /\ resp.inProgressBugs = EntryOf(resp.statusDistribution, "in-progress")
    /\ resp.resolvedBugs = EntryOf(resp.statusDistribution, "resolved")
    /\ resp.closedBugs = EntryOf(resp.statusDistribution, "closed")
    /\ resp.highPriorityBugs = EntryOf(resp.priorityDistribution, "high")
    /\ resp.criticalBugs = EntryOf(resp.priorityDistribution, "critical")

----------------------------------------------------------------------------
(* Claims about a failing store, checked under SpecFailure                 *)

ReportFields ==
  {"totalBugs", "openBugs", "inProgressBugs", "resolvedBugs", "closedBugs",
   "highPriorityBugs", "criticalBugs", "recentBugs", "statusDistribution",
   "priorityDistribution", "assigneeStats", "monthlyTrend"}

\* C11: when a read of the analytics report fails the response is an error
\* with no field of the report; a report is sent only when no read failed
C11_AnalyticsAllOrNothing ==
  /\ (resp.op = "analytics" /\ resp.status = 200) =>
       /\ resp.failed = {}
       /\ ReportFields \subseteq DOMAIN resp
  /\ (resp.op = "analytics" /\ resp.status # 200) =>
       /\ resp.status = 500
       /\ resp.failed # {}
       /\ ReportFields \cap DOMAIN resp = {}
       /\ ana.pc = "idle"
  /\ ana.pc # "idle" => ana.failed = {}

C11_Witness ==
  /\ resp.op = "analytics"
  /\ resp.status = 500
  /\ resp.failed = {"assigneeStats"}
  /\ bugs # {}

FailureMessage ==
  [list |-> "Failed to fetch bugs", export |-> "Failed to export bugs",
   analytics |-> "Failed to fetch analytics"]

\* the fields of a response that carry data of the store or an exception
DataFields == ReportFields \cup {"bugs", "pagination", "csv", "fields", "error", "stack"}

\* C21: a read that fails ends its request with a 500 whose message names
\* the operation and which has no data and no exception; a read that was
\* made is not made again, and a listing answers 200 only after both of its
\* reads
C21_FailedReadIsServerFailure ==
  [][/\ (resp'.op \in DOMAIN FailureMessage /\ resp'.status = 500) =>
          /\ resp'.message = FailureMessage[resp'.op]
          /\ DataFields \cap DOMAIN resp' = {}
          /\ resp'.op = "list" => lst' = NoListing
          /\ resp'.op = "analytics" => ana' = NoAnalytics
     /\ (lst.pc = "reading" /\ resp'.op = "list" /\ resp'.status = 200) =>
          lst.pending = {}
     /\ (lst.pc = "reading" /\ lst'.pc = "reading") =>
          lst'.pending \subseteq lst.pending
     /\ (ana.pc = "counts" /\ ana'.pc = "counts") =>
          ana'.pending \subseteq ana.pending
    ]_vars

\* a read of a listing has failed over a store with records, for a filter
\* the store accepts
C21_Witness ==
  /\ resp.op = "list"
  /\ resp.status = 500
  /\ ~CastFails(BuildFilter(resp.q))
  /\ bugs # {}

\* C26: a step of a listing, of an export or of an analytics request, be it
\* a read, a rejection, a failure or the response, leaves the bugs, the
\* users and the comments as they are
C26_ReadsLeaveTheStores ==
  [][(lst' # lst \/ ana' # ana \/ resp'.op \in {"list", "export", "analytics"}) =>
       (bugs' = bugs /\ users' = users /\ comments' = comments)
    ]_vars

\* an export has been served from a store with records
C26_Witness ==
  /\ resp.op = "export"
  /\ resp.status = 200
  /\ Len(resp.bugs) = MaxBugs

\* a listing has been rejected over a store with records
C26_RejectedReached ==
  /\ resp.op = "list"
  /\ resp.status = 400
  /\ bugs # {}

----------------------------------------------------------------------------
(* Claims about the rows of the export, checked under SpecExport           *)

\* the line feeds of text that are not inside a quoted field
RECURSIVE UnquotedLineFeeds(_, _)
UnquotedLineFeeds(text, quoted) ==
  IF Len(text) = 0 THEN 0
  ELSE IF text[1] = "\"" THEN UnquotedLineFeeds(Tail(text), ~quoted)
  ELSE (IF text[1] = "\n" /\ ~quoted THEN 1 ELSE 0)
       + UnquotedLineFeeds(Tail(text), quoted)

\* the rows of a body: a row ends at a line feed outside quotes or at the end
RowsOf(text) ==
  UnquotedLineFeeds(text, FALSE)
  + (IF Len(text) > 0 /\ text[Len(text)] # "\n" THEN 1 ELSE 0)

\* C12: the export of a filter the listing takes is served; a served export
\* has one header row and then one row for every matching record, each
\* once, the most recently created first
C12_ExportIsEveryMatchInOrder ==
  /\ (resp.op = "export" /\ ValidationErrors(resp.q) = {}) => resp.status = 200
  /\ (resp.op = "export" /\ resp.status = 200) =>
       LET matching == {b \in bugs : SatisfiesOthers(b, resp.q)}
           n == Len(resp.fields)
       IN /\ n = Cardinality(matching)
          /\ {resp.fields[i][1] : i \in 1..n} = {<<ToString(b.id)>> : b \in matching}
          /\ \A i \in 1..n : resp.fields[i][1] = <<ToString(resp.bugs[i].id)>>
          /\ \A i, j \in 1..n : i < j =>
               resp.bugs[i].createdAt >= resp.bugs[j].createdAt
          /\ SubSeq(resp.csv, 1, Len(csvHeader)) = csvHeader
          /\ Cardinality({k \in 1..Len(resp.csv) : resp.csv[k] = csvHeader[1]}) = 1
          /\ RowsOf(resp.csv) = 1 + Cardinality(matching)

C12_Witness ==
  /\ resp.op = "export"
  /\ resp.status = 200
  /\ resp.q.priority = Undefined
  /\ Len(resp.fields) = 2
  /\ resp.bugs[1].createdAt > resp.bugs[2].createdAt
  /\ resp.bugs[1].title = <<"a", "\n", "a">>

----------------------------------------------------------------------------
(* Claims about a repeated listing, checked under SpecRepeat               *)

\* C13: two listings of the same filter, page and page size, with no write
\* between them, answer with the same records in the same order and the
\* same pagination envelope
C13_RepeatedListingIsTheSame ==
  (walk.pc = "repeating" /\ Len(walk.answers) = 2) =>
    walk.answers[1] = walk.answers[2]

\* the same, for stores in which no two records were created at the same time
C13_SameWhenCreationTimesDiffer ==
  (/\ walk.pc = "repeating"
   /\ Len(walk.answers) = 2
   /\ \A b, c \in bugs : b.createdAt = c.createdAt => b = c) =>
    walk.answers[1] = walk.answers[2]

----------------------------------------------------------------------------
(* Claims about the records, checked under Spec                            *)

\* C14: after any creations and updates a bug has a resolved timestamp
\* exactly when its status is closed
C14_ResolvedAtIffClosed ==
  \A b \in bugs : (b.resolvedAt # NULL) <=> (b.status = "closed")

----------------------------------------------------------------------------
(* Claims about the monthly trend, checked under SpecTrend                 *)

\* months counted from the first month of the calendar
MonthIndex(t) == t \div 30

\* the month of now and the five months before it
TrailingMonths == {m \in 0..MonthIndex(now) : m + 6 > MonthIndex(now)}

CreatedIn(m) == {b \in bugs : MonthIndex(b.createdAt) = m}

EntryIndex(e) == e.year * 12 + (e.month - 1)

\* C17: monthlyTrend has one entry for each of the trailing six calendar
\* months in which a record was created, and no other; the entry counts
\* every record created in its month; the entries are in ascending order
C17_MonthlyTrendIsTrailingSixMonths ==
  (resp.op = "analytics" /\ resp.status = 200 /\ ~resp.raced) =>
    LET t == resp.monthlyTrend
    IN /\ {EntryIndex(t[i]) : i \in 1..Len(t)} =
            {m \in TrailingMonths : CreatedIn(m) # {}}
       /\ \A i \in 1..Len(t) : t[i].count = Cardinality(CreatedIn(EntryIndex(t[i])))
       /\ \A i, j \in 1..Len(t) : i < j => EntryIndex(t[i]) < EntryIndex(t[j])
       /\ Len(t) <= 6
       /\ \A i \in 1..Len(t) : t[i].count >= 1

\* what the trend does hold: the months of the records created in the six
\* months up to now, day for day, each with the count of those records
C17_TrendCountsFromSameDaySixMonthsBack ==
  (resp.op = "analytics" /\ resp.status = 200 /\ ~resp.raced) =>
    LET t == resp.monthlyTrend
        recent == {b \in bugs : b.createdAt >= now - 6 * 30}
    IN /\ {EntryIndex(t[i]) : i \in 1..Len(t)} = {MonthIndex(b.createdAt) : b \in recent}
       /\ \A i \in 1..Len(t) :
            t[i].count = Cardinality({b \in recent : MonthIndex(b.createdAt) = EntryIndex(t[i])})
       /\ \A i, j \in 1..Len(t) : i < j => EntryIndex(t[i]) < EntryIndex(t[j])

\* C19: in a report a status or a priority is in its distribution exactly
\* when a record has it, once, with the number of those records, which is
\* at least 1
C19_DistributionsAreSparse ==
  (resp.op = "analytics" /\ resp.status = 200) =>
    /\ \A d \in resp.statusDistribution \cup resp.priorityDistribution : d.value >= 1
    /\ \A d, e \in resp.statusDistribution : d.name = e.name => d = e
    /\ \A d, e \in resp.priorityDistribution : d.name = e.name => d = e
    /\ ~resp.raced =>
         /\ {d.name : d \in resp.statusDistribution} = {b.status : b \in bugs}
         /\ {d.name : d \in resp.priorityDistribution} = {b.priority : b \in bugs}
         /\ \A d \in resp.statusDistribution :
              d.value = Cardinality({b \in bugs : b.status = d.name})
         /\ \A d \in resp.priorityDistribution :
              d.value = Cardinality({b \in bugs : b.priority = d.name})

C19_Witness ==
  /\ resp.op = "analytics"
  /\ resp.status = 200
  /\ ~resp.raced
  /\ Cardinality(bugs) = MaxBugs
  /\ {d.name : d \in resp.statusDistribution} = {"reopened"}
  /\ {d.name : d \in resp.priorityDistribution} = {"low"}

----------------------------------------------------------------------------
(* Claims about a listing among writes, checked under SpecRace             *)

\* the step of a listing in flight that takes name out of the pending reads
ReadStep(name) ==
  /\ lst.pc = "reading"
  /\ lst'.pc = "reading"
  /\ name \in lst.pending
  /\ lst'.pending = lst.pending \ {name}

WindowRead == ReadStep("find")

CountRead == ReadStep("count")

\* C22: the window of a listing is the requested window of the store as it
\* is when the window is read, its totalCount the number of matches of the
\* store as it is when they are counted; writes in between change neither,
\* and the response carries both as they were read
C22_EachReadSeesOneStoreState ==
  [][/\ WindowRead =>
          \E s \in SortedByCreatedDesc(Find(bugs, BuildFilter(lst.q))) :
            lst'.bugs = PopulateAll(SkipLimit(s, SkipOf(lst.q), LimitOf(lst.q)), users)
     /\ CountRead =>
          lst'.totalCount = Cardinality({b \in bugs : Matches(b, BuildFilter(lst.q))})
     /\ (lst.pc = "reading" /\ lst'.pc = "reading" /\ "find" \notin lst.pending) =>
          lst'.bugs = lst.bugs
     /\ (lst.pc = "reading" /\ lst'.pc = "reading" /\ "count" \notin lst.pending) =>
          lst'.totalCount = lst.totalCount
     /\ (lst.pc = "reading" /\ resp'.op = "list" /\ resp'.status = 200) =>
          /\ lst.pending = {}
          /\ resp'.bugs = lst.bugs
          /\ resp'.pagination.totalCount = lst.totalCount
    ]_vars

\* the first page of a listing is empty and its totalCount is not 0
C22_Witness ==
  /\ resp.op = "list"
  /\ resp.status = 200
  /\ resp.raced
  /\ PageOf(resp.q) = 1
  /\ Len(resp.bugs) = 0
  /\ resp.pagination.totalCount > 0

----------------------------------------------------------------------------
(* Claims about the clock of a report, checked under SpecClock             *)

\* C23: the cutoff of the recent count and the cutoff of the monthly trend
\* of one report are taken from one instant
C23_CutoffsFromOneInstant ==
  (resp.op = "analytics" /\ resp.status = 200) =>
    resp.last7Days + SevenDays = resp.sixMonthsAgo + SixMonths * DaysPerMonth

----------------------------------------------------------------------------
(* Claims about deletion, checked under SpecDelete                         *)

Elevated == {"admin", "manager"}

MayDelete(u, b) == users[u].role \in Elevated \/ b.reporter = u

C20_Refused ==
  /\ resp.op = "delete"
  /\ resp.status = 403
  /\ users[resp.by].role = "tester"

\* C28: a record keeps the reporter it was created with: no step gives a
\* stored record another reporter
C28_UpdateKeepsReporter ==
  [][\A b \in bugs : \A c \in bugs' : c.id = b.id => c.reporter = b.reporter]_vars

----------------------------------------------------------------------------
(* Claims about the dashboard, checked under SpecDash                      *)

\* the step issues a listing request
Issues == dash.pc = "open" /\ dash'.seq # dash.seq

\* C29: a listing request issued after a change of the filters and before
\* the next page navigation carries page 1
C29_NoRequestWithStalePage ==
  [][(Issues /\ dash.changed) => dash'.last.page = 1]_vars

\* what holds: once the effects have run and no render is queued, the page
\* is 1 after a change of the filters, and the request issued last is the
\* one for the filters and the page on display
C29_SettledOnPageOne ==
  (dash.pc = "open" /\ dash.effects = <<>> /\ dash.queued = 0) =>
    /\ dash.changed => dash.currentPage = 1
    /\ dash.last = [filters |-> dash.filters, page |-> dash.currentPage]

----------------------------------------------------------------------------
(* Claims about the comments, checked under SpecComment                    *)

\* C30: the parent of every stored comment is null or a stored comment
C30_NoOrphanedReplies ==
  \A c \in comments :
    c.parentComment = NULL \/ \E p \in comments : p.id = c.parentComment

----------------------------------------------------------------------------
(* Claims about the assignees of the report, checked under SpecAssignee    *)

AssignedTo(u) == {b \in bugs : b.assignedTo = u}

Assignees == {u \in DOMAIN users : AssignedTo(u) # {}}

\* C18: assigneeStats has an entry for each assignee, up to 5, and none
\* else; an entry counts the records assigned to its user; the counts do
\* not rise along the list, and no assignee left out has more records than
\* one that is listed
C18_AssigneeStatsAreTopFive ==
  (resp.op = "analytics" /\ resp.status = 200 /\ ~resp.raced) =>
    LET t == resp.assigneeStats
        listed == {u \in Assignees : \E i \in 1..Len(t) : t[i].name = FullName(u)}
    IN /\ Len(t) <= 5
       /\ Len(t) = IF Cardinality(Assignees) < 5 THEN Cardinality(Assignees) ELSE 5
       /\ Cardinality(listed) = Len(t)
       /\ \A i \in 1..Len(t) :
            \E u \in Assignees :
              /\ t[i].name = FullName(u)
              /\ t[i].value = Cardinality(AssignedTo(u))
       /\ \A i, j \in 1..Len(t) : i < j => t[i].value >= t[j].value
       /\ \A u \in Assignees \ listed :
            \A i \in 1..Len(t) : Cardinality(AssignedTo(u)) <= t[i].value

C18_Witness ==
  /\ resp.op = "analytics"
  /\ resp.status = 200
  /\ Cardinality(Assignees) = 6
  /\ Len(resp.assigneeStats) = 5
  /\ resp.assigneeStats[1].value = 2
  /\ resp.assigneeStats[5].value = 1
  /\ \E b \in bugs : b.assignedTo = NULL

====
